---- MODULE Spec2Model ----
(***************************************************************************)
(* The LAPJV linear-assignment solver of src/src/lapjv.rs as a state       *)
(* machine.  A solver instance is a record holding the fields of struct    *)
(* LapJV, the flag of its Cancellation token, the locals of the loops of   *)
(* solve / carr_dense / ca_dense / find_path_dense and its position (pc).  *)
(* Vectors are functions over 0..len-1, as the code indexes them.          *)
(* Costs are integers: on integer-valued costs of this size every float    *)
(* subtraction and addition of the code is exact, and |x| < epsilon holds  *)
(* exactly when x = 0.                                                     *)
(***************************************************************************)
EXTENDS Integers, FiniteSets, TLC

VARIABLES costs, solver

vars == <<costs, solver>>

\* ---------------------------------------------------------------- bounds

\* Largest matrix dimension (rows or columns) drawn in Init.
MaxN == 3

\* Largest cost drawn for a dim x dim matrix: 0..2 up to dimension 3 and
\* 0..1 above, which keeps the set of inputs enumerable.
CostTop(dim) == IF dim <= 3 THEN 2 ELSE 1

\* Bits of the significand of the cost type T.  The program runs on f32
\* or f64 (24 or 53 bits); the model keeps the arithmetic of a binary
\* floating-point type and scales its precision down, as it scales the
\* matrices down: integers up to 2^MantBits are exact, larger values are
\* rounded to MantBits significant bits.
MantBits == 4

\* ------------------------------------------------------ program constants

\* std::usize::MAX, the "unassigned" sentinel: larger than every index.
USIZE_MAX == 2147483647

\* T::max_value(): a power of two, so a value of T at every precision,
\* and larger than every reduced cost the bounds can produce.
T_MAX == 1073741824

\* The bound of the augmenting-row-reduction loop of solve (i < 2).
ARR_PASSES == 2

MsgNotSquare == "Input error: matrix is not square"

MsgNotFinish == "Error: ca_dense will not finish"

\* ------------------------------------------------------------- vectors

VLen(f) == Cardinality(DOMAIN f)

EmptyVec == [x \in {} |-> 0]

Filled(n, x) == [k \in 0..(n - 1) |-> x]

Push(f, x) == [k \in 0..VLen(f) |-> IF k < VLen(f) THEN f[k] ELSE x]

Truncate(f, n) == IF n < VLen(f) THEN [k \in 0..(n - 1) |-> f[k]] ELSE f

Tail0(f) == [k \in 0..(VLen(f) - 2) |-> f[k + 1]]

Abs(x) == IF x < 0 THEN -x ELSE x

\* Option<usize>: the empty set is None, {j} is Some(j).
Unwrap(o) == CHOOSE x \in o : TRUE

\* ------------------------------------------------- arithmetic of T: Float

\* The distance between neighbouring values of T at magnitude a.
RECURSIVE Ulp(_)
Ulp(a) == IF a < 2 ^ MantBits THEN 1 ELSE 2 * Ulp(a \div 2)

\* The value of T nearest to x, ties to the even significand.
Round(x) ==
  LET a == Abs(x)
      u == Ulp(a)
      q == a \div u
      r == a % u
      m == IF 2 * r > u \/ (2 * r = u /\ q % 2 = 1) THEN (q + 1) * u ELSE q * u
  IN IF x < 0 THEN -m ELSE m

\* a - b and a + b in T: the exact result, rounded.
Sub(a, b) == Round(a - b)

Add(a, b) == Round(a + b)

\* ------------------------------------------------------------- matrix

NRows == VLen(costs)

NCols == VLen(costs[0])

\* All rows x cols matrices with entries in 0..top.
Matrices(rows, cols, top) == [0..(rows - 1) -> [0..(cols - 1) -> 0..top]]

\* LapJV::cost
Cost(i, j) == costs[i][j]

\* LapJV::reduced_cost, on the dual vector v
ReducedCost(v, i, j) == Sub(Cost(i, j), v[j])

\* ------------------------------------------------------------- results

NoResult == [status |-> "none", kind |-> "", msg |-> "",
             row_to_col |-> EmptyVec, col_to_row |-> EmptyVec]

\* Err(LapJVError { kind: ErrorKind::Msg(text) })
ErrMsg(text) == [status |-> "Err", kind |-> "Msg", msg |-> text,
                 row_to_col |-> EmptyVec, col_to_row |-> EmptyVec]

\* Err(LapJVError { kind: ErrorKind::Cancelled })
ErrCancelled == [status |-> "Err", kind |-> "Cancelled", msg |-> "",
                 row_to_col |-> EmptyVec, col_to_row |-> EmptyVec]

\* Ok((self.in_row, self.in_col))
OkResult(s) == [status |-> "Ok", kind |-> "", msg |-> "",
                row_to_col |-> s.in_row, col_to_row |-> s.in_col]

\* An index out of bounds, or a failed debug_assert: the thread panics.
Panicked == [status |-> "Panic", kind |-> "", msg |-> "",
             row_to_col |-> EmptyVec, col_to_row |-> EmptyVec]

\* -------------------------------------------------------- construction

\* LapJV::new: dim is the row count, in_row is zero-filled, the other
\* vectors are empty, and the cancellation flag starts false.
NewSolver(rows) ==
  [pc |-> "new", dim |-> rows,
   free_rows |-> EmptyVec, v |-> EmptyVec, in_col |-> EmptyVec,
   in_row |-> Filled(rows, 0), cancelled |-> FALSE,
   i |-> 0,
   current |-> 0, new_free_rows |-> 0, rr_cnt |-> 0, num_free_rows |-> 0,
   pred |-> EmptyVec, queue |-> EmptyVec, freerow |-> 0,
   collist |-> EmptyVec, d |-> EmptyVec, lo |-> 0, hi |-> 0, n_ready |-> 0,
   final_j |-> {},
   wi |-> 0, wj |-> 0, wk |-> 0,
   result |-> NoResult,
   \* history, read by no step: the flag as solve() found it on entry, the
   \* phases entered, the calls of check_cancelled, the searches started,
   \* the passes of the loop of the running search and the steps taken.
   entry_cancelled |-> FALSE, phases |-> {}, polls |-> 0, augs |-> 0,
   rounds |-> 0, steps |-> 0]

\* ------------------------------------------- column reduction (ccrrt_dense)

\* The fold of lines 151-160 over column j: the first row holding the
\* column's minimum (a later row wins only when strictly smaller).
RECURSIVE ColMinFold(_, _, _, _)
ColMinFold(j, i, old_idx, old_min) ==
  IF i >= NRows THEN <<old_idx, old_min>>
  ELSE IF Cost(i, j) < old_min
       THEN ColMinFold(j, i + 1, i, Cost(i, j))
       ELSE ColMinFold(j, i + 1, old_idx, old_min)

ColMin(j) == ColMinFold(j, 1, 0, Cost(0, j))

\* Lines 150-163: push each column's minimising row and minimum.
CcrrtInit(s) ==
  [s EXCEPT !.in_col = [j \in 0..(NCols - 1) |-> ColMin(j)[1]],
            !.v = [j \in 0..(NCols - 1) |-> ColMin(j)[2]]]

\* Mutant of CcrrtClaim: a claim on a row already claimed marks the row
\* as not unique but leaves the column holding the row.
RECURSIVE CcrrtClaimNoVoid(_, _)
CcrrtClaimNoVoid(a, j) ==
  IF j < 0 THEN a
  ELSE LET i == a.s.in_col[j] IN
       IF a.not_set[i]
       THEN CcrrtClaimNoVoid([a EXCEPT !.s.in_row[i] = j, !.not_set[i] = FALSE], j - 1)
       ELSE CcrrtClaimNoVoid([a EXCEPT !.unique[i] = FALSE], j - 1)

\* Lines 165-174: columns in descending order claim their minimising row;
\* a claim on a row already claimed is voided.  a = [s, unique, not_set].
RECURSIVE CcrrtClaim(_, _)
CcrrtClaim(a, j) ==
  IF j < 0 THEN a
  ELSE LET i == a.s.in_col[j] IN
       IF a.not_set[i]
       THEN CcrrtClaim([a EXCEPT !.s.in_row[i] = j, !.not_set[i] = FALSE], j - 1)
       ELSE CcrrtClaim([a EXCEPT !.unique[i] = FALSE, !.s.in_col[j] = USIZE_MAX], j - 1)

\* Lines 181-190: the minimum reduced cost of row i over the columns # j.
RECURSIVE MinOtherReduced(_, _, _, _, _)
MinOtherReduced(v, i, j, j2, min) ==
  IF j2 >= VLen(v) THEN min
  ELSE IF j2 = j THEN MinOtherReduced(v, i, j, j2 + 1, min)
  ELSE LET c == ReducedCost(v, i, j2) IN
       MinOtherReduced(v, i, j, j2 + 1, IF c < min THEN c ELSE min)

\* Mutant of CcrrtTransfer: the reduction transfer raises the dual of
\* the column by the minimum instead of lowering it.
RECURSIVE CcrrtTransferRaising(_, _)
CcrrtTransferRaising(a, i) ==
  IF i >= a.s.dim THEN a
  ELSE IF a.not_set[i]
       THEN CcrrtTransferRaising([a EXCEPT !.s.free_rows = Push(@, i)], i + 1)
  ELSE IF a.unique[i]
       THEN LET j == a.s.in_row[i]
                min == MinOtherReduced(a.s.v, i, j, 0, T_MAX)
            IN CcrrtTransferRaising([a EXCEPT !.s.v[j] = Add(@, min)], i + 1)
  ELSE CcrrtTransferRaising(a, i + 1)

\* Lines 176-193: unclaimed rows become free; a uniquely claimed row
\* lowers the dual of its column (reduction transfer).
RECURSIVE CcrrtTransfer(_, _)
CcrrtTransfer(a, i) ==
  IF i >= a.s.dim THEN a
  ELSE IF a.not_set[i]
       THEN CcrrtTransfer([a EXCEPT !.s.free_rows = Push(@, i)], i + 1)
  ELSE IF a.unique[i]
       THEN LET j == a.s.in_row[i]
                min == MinOtherReduced(a.s.v, i, j, 0, T_MAX)
            IN CcrrtTransfer([a EXCEPT !.s.v[j] = Sub(@, min)], i + 1)
  ELSE CcrrtTransfer(a, i + 1)

\* LapJV::ccrrt_dense
CcrrtDense(s) ==
  LET a0 == [s |-> CcrrtInit(s),
             unique |-> Filled(s.dim, TRUE), not_set |-> Filled(s.dim, TRUE)]
      a1 == CcrrtClaim(a0, s.dim - 1)
  IN CcrrtTransfer(a1, 0).s

\* ---------------------------------- augmenting row reduction (carr_dense)

\* find_umins_plain: minimum and second minimum reduced cost of a row,
\* a = [umin, usubmin, j1, j2].
RECURSIVE FindUminsFold(_, _, _, _)
FindUminsFold(v, row, j, a) ==
  IF j >= NCols THEN a
  ELSE LET h == Sub(Cost(row, j), v[j]) IN
       IF h < a.usubmin
       THEN IF h >= a.umin
            THEN FindUminsFold(v, row, j + 1, [a EXCEPT !.usubmin = h, !.j2 = {j}])
            ELSE FindUminsFold(v, row, j + 1,
                   [umin |-> h, usubmin |-> a.umin, j1 |-> j, j2 |-> {a.j1}])
       ELSE FindUminsFold(v, row, j + 1, a)

\* Mutant of FindUminsPlain: the raw costs of the row are compared, the
\* duals are forgotten.
FindUminsPlainUnreduced(v, row) ==
  FindUminsFold(Filled(NCols, 0), row, 1,
    [umin |-> Cost(row, 0), usubmin |-> T_MAX, j1 |-> 0, j2 |-> {}])

FindUminsPlain(v, row) ==
  FindUminsFold(v, row, 1,
    [umin |-> Sub(Cost(row, 0), v[0]), usubmin |-> T_MAX, j1 |-> 0, j2 |-> {}])

\* Lines 202-206: the locals of carr_dense.
CarrBegin(s) ==
  [s EXCEPT !.current = 0, !.new_free_rows = 0, !.rr_cnt = 0,
            !.num_free_rows = VLen(s.free_rows)]

\* Mutant of CarrBody: the iteration polls the cancellation flag.
CarrBodyPolling(s) ==
  IF s.cancelled
  THEN [s EXCEPT !.pc = "done", !.result = ErrCancelled, !.polls = @ + 1]
  ELSE LET rr_cnt == s.rr_cnt + 1
           free_i == s.free_rows[s.current]
           u == FindUminsPlain(s.v, free_i)
           i0 == s.in_col[u.j1]
       IN [s EXCEPT !.rr_cnt = rr_cnt, !.current = @ + 1,
                    !.free_rows = IF i0 # USIZE_MAX
                                  THEN [@ EXCEPT ![s.new_free_rows] = i0] ELSE @,
                    !.new_free_rows = IF i0 # USIZE_MAX THEN @ + 1 ELSE @,
                    !.in_row[free_i] = u.j1, !.in_col[u.j1] = free_i]

\* Lines 209-250: one iteration of the loop over the free rows.
CarrBody(s) ==
  LET rr_cnt == s.rr_cnt + 1
      free_i == s.free_rows[s.current]
      current == s.current + 1
      u == FindUminsPlain(s.v, free_i)
      v1_new == Sub(s.v[u.j1], Sub(u.usubmin, u.umin))
      v1_lowers == v1_new < s.v[u.j1]
      guard == rr_cnt < current * s.dim
      swap == guard /\ ~v1_lowers /\ s.in_col[u.j1] # USIZE_MAX /\ u.j2 # {}
      j1 == IF swap THEN Unwrap(u.j2) ELSE u.j1
      i0 == s.in_col[j1]
      v2 == IF guard /\ v1_lowers THEN [s.v EXCEPT ![u.j1] = v1_new] ELSE s.v
      back == guard /\ i0 # USIZE_MAX /\ v1_lowers
      keep == i0 # USIZE_MAX /\ ~back
      current2 == IF back THEN current - 1 ELSE current
      free2 == IF back THEN [s.free_rows EXCEPT ![current2] = i0]
               ELSE IF keep THEN [s.free_rows EXCEPT ![s.new_free_rows] = i0]
               ELSE s.free_rows
  IN [s EXCEPT !.rr_cnt = rr_cnt, !.current = current2, !.v = v2,
               !.free_rows = free2,
               !.new_free_rows = IF keep THEN @ + 1 ELSE @,
               !.in_row[free_i] = j1, !.in_col[j1] = free_i]

\* Line 252, and i += 1 of solve's loop.
CarrEnd(s) ==
  [s EXCEPT !.free_rows = Truncate(@, s.new_free_rows), !.i = @ + 1, !.pc = "arr"]

\* ------------------------------------------------ augmentation (ca_dense)

\* Lines 257-260: the locals of ca_dense; the free rows move to the
\* iterator of the for loop and self.free_rows is left empty.
CaBegin(s) ==
  [s EXCEPT !.pred = Filled(s.dim, 0), !.queue = s.free_rows,
            !.free_rows = EmptyVec, !.pc = "ca"]

\* Lines 286-303: the locals of find_path_dense for the row start_i.
FindPathInit(s, start_i) ==
  [s EXCEPT !.freerow = start_i,
            !.collist = [k \in 0..(s.dim - 1) |-> k],
            !.d = [k \in 0..(s.dim - 1) |-> ReducedCost(s.v, start_i, k)],
            !.pred = [k \in 0..(s.dim - 1) |-> start_i],
            !.lo = 0, !.hi = 0, !.n_ready = 0, !.final_j = {},
            !.augs = @ + 1, !.rounds = 0]

\* The loop of find_dense from index k: a = [hi, mind, collist].
RECURSIVE FindDenseFold(_, _, _, _, _)
FindDenseFold(dim, lo, d, k, a) ==
  IF k >= dim THEN a
  ELSE LET j == a.collist[k]
           h == d[j]
       IN IF h <= a.mind
          THEN LET hi == IF h < a.mind THEN lo ELSE a.hi IN
               FindDenseFold(dim, lo, d, k + 1,
                 [hi |-> hi + 1, mind |-> h,
                  collist |-> [a.collist EXCEPT ![k] = a.collist[hi], ![hi] = j]])
          ELSE FindDenseFold(dim, lo, d, k + 1, a)

\* find_dense: the columns of collist[lo..] tied for the minimum distance
\* are moved to collist[lo..hi]; returns hi and the permuted list.
FindDense(dim, lo, d, collist) ==
  FindDenseFold(dim, lo, d, lo + 1,
    [hi |-> lo + 1, mind |-> d[collist[lo]], collist |-> collist])

\* Lines 312-316: the last unassigned column of collist[lo..hi], if any.
LastUnassigned(in_col, collist, lo, hi) ==
  LET ks == {k \in lo..(hi - 1) : in_col[collist[k]] = USIZE_MAX} IN
  IF ks = {} THEN {}
  ELSE {collist[CHOOSE k \in ks : \A k2 \in ks : k2 <= k]}

\* Lines 305-317: the frontier expansion of one pass of the search loop.
\* d[collist[lo]] with lo past the list is an index out of bounds.
FindStep(s) ==
  IF s.lo # s.hi THEN [s EXCEPT !.pc = "scan", !.rounds = @ + 1]
  ELSE IF s.lo >= VLen(s.collist)
       THEN [s EXCEPT !.pc = "done", !.result = Panicked]
  ELSE LET f == FindDense(s.dim, s.lo, s.d, s.collist)
           fj == LastUnassigned(s.in_col, f.collist, s.lo, f.hi)
       IN [s EXCEPT !.n_ready = s.lo, !.hi = f.hi, !.collist = f.collist,
                    !.final_j = fj, !.rounds = @ + 1,
                    !.pc = IF fj = {} THEN "scan" ELSE "path"]

\* Mutant of ScanRelax: a column reached at the minimum distance joins
\* the frontier without the test that it is unassigned.
RECURSIVE ScanRelaxNoFreeTest(_, _, _, _, _, _)
ScanRelaxNoFreeTest(s, i, mind, h, k, a) ==
  IF k >= VLen(a.collist) THEN a
  ELSE LET j == a.collist[k]
           cred_ij == Sub(ReducedCost(s.v, i, j), h)
       IN IF cred_ij < a.d[j]
          THEN LET a1 == [a EXCEPT !.d[j] = cred_ij, !.pred[j] = i] IN
               IF Abs(Sub(cred_ij, mind)) < 1
               THEN ScanRelaxNoFreeTest(s, i, mind, h, k + 1,
                      [a1 EXCEPT !.collist[k] = a.collist[a.hi],
                                 !.collist[a.hi] = j, !.hi = @ + 1])
               ELSE ScanRelaxNoFreeTest(s, i, mind, h, k + 1, a1)
          ELSE ScanRelaxNoFreeTest(s, i, mind, h, k + 1, a)

\* The for loop of scan_dense (lines 351-367) from index k, relaxing
\* through row i: a = [hi, d, collist, pred, found].
RECURSIVE ScanRelax(_, _, _, _, _, _)
ScanRelax(s, i, mind, h, k, a) ==
  IF k >= VLen(a.collist) \/ a.found # {} THEN a
  ELSE LET j == a.collist[k]
           cred_ij == Sub(ReducedCost(s.v, i, j), h)
       IN IF cred_ij < a.d[j]
          THEN LET a1 == [a EXCEPT !.d[j] = cred_ij, !.pred[j] = i] IN
               IF Abs(Sub(cred_ij, mind)) < 1
               THEN IF s.in_col[j] = USIZE_MAX
                    THEN [a1 EXCEPT !.found = {j}]
                    ELSE ScanRelax(s, i, mind, h, k + 1,
                           [a1 EXCEPT !.collist[k] = a.collist[a.hi],
                                      !.collist[a.hi] = j, !.hi = @ + 1])
               ELSE ScanRelax(s, i, mind, h, k + 1, a1)
          ELSE ScanRelax(s, i, mind, h, k + 1, a)

\* The while loop of scan_dense (lines 345-368): a as above plus lo and
\* panic (the row of a scanned column is the sentinel: reduced_cost
\* indexes the matrix out of bounds).
RECURSIVE ScanLoop(_, _)
ScanLoop(s, a) ==
  IF a.lo = a.hi \/ a.found # {} \/ a.panic THEN a
  ELSE LET j == a.collist[a.lo]
           i == s.in_col[j]
       IN IF i = USIZE_MAX THEN [a EXCEPT !.panic = TRUE]
          ELSE LET mind == a.d[j]
                   h == Sub(ReducedCost(s.v, i, j), mind)
               IN ScanLoop(s, ScanRelax(s, i, mind, h, a.hi, [a EXCEPT !.lo = @ + 1]))

\* scan_dense: relaxes through the columns collist[lo..hi]; d, collist
\* and pred are changed in place, lo and hi only when nothing is found.
ScanDense(s) ==
  LET a == ScanLoop(s, [lo |-> s.lo, hi |-> s.hi, d |-> s.d,
                        collist |-> s.collist, pred |-> s.pred,
                        found |-> {}, panic |-> FALSE])
  IN IF a.panic THEN [s EXCEPT !.pc = "done", !.result = Panicked]
     ELSE [s EXCEPT !.d = a.d, !.collist = a.collist, !.pred = a.pred,
                    !.lo = IF a.found = {} THEN a.lo ELSE s.lo,
                    !.hi = IF a.found = {} THEN a.hi ELSE s.hi,
                    !.final_j = a.found, !.pc = "path"]

\* Lines 327-330: the duals of the n_ready settled columns.
RECURSIVE UpdateDuals(_, _, _, _, _)
UpdateDuals(v, d, collist, mind, k) ==
  IF k <= 0 THEN v
  ELSE LET j == collist[k - 1] IN
       UpdateDuals([v EXCEPT ![j] = Add(@, Sub(d[j], mind))], d, collist, mind, k - 1)

\* Lines 325-331 and 266-269: find_path_dense returns the column found,
\* and ca_dense starts the walk back along pred with i = MAX, k = 0.
PathFinish(s) ==
  LET j == Unwrap(s.final_j)
      mind == s.d[s.collist[s.lo]]
  IN IF ~(j < s.dim) THEN [s EXCEPT !.pc = "done", !.result = Panicked]
     ELSE [s EXCEPT !.v = UpdateDuals(s.v, s.d, s.collist, mind, s.n_ready),
                    !.wi = USIZE_MAX, !.wk = 0, !.wj = j, !.pc = "walk"]

\* Mutant of WalkBody: in_row[i] is overwritten instead of swapped with
\* j, so the walk never moves to the previous column.
WalkBodyNoSwap(s) ==
  LET i == s.pred[s.wj]
      k == s.wk + 1
      s1 == [s EXCEPT !.wi = i, !.in_col[s.wj] = i, !.in_row[i] = s.wj, !.wk = k]
  IN IF k > s.dim
     THEN [s1 EXCEPT !.pc = "done", !.result = ErrMsg(MsgNotFinish)]
     ELSE s1

\* Lines 271-277: one step of the walk; past dim steps it gives up.
WalkBody(s) ==
  LET i == s.pred[s.wj]
      k == s.wk + 1
      s1 == [s EXCEPT !.wi = i, !.in_col[s.wj] = i, !.wj = s.in_row[i],
                      !.in_row[i] = s.wj, !.wk = k]
  IN IF k > s.dim
     THEN [s1 EXCEPT !.pc = "done", !.result = ErrMsg(MsgNotFinish)]
     ELSE s1

\* ------------------------------------------------------------ solve

\* Mutant of SolveEnter: the column minima are computed before the
\* dimension check.
SolveEnterLateCheck(s) ==
  IF NRows # NCols
  THEN [CcrrtInit(s) EXCEPT !.pc = "done", !.result = ErrMsg(MsgNotSquare),
                            !.entry_cancelled = s.cancelled]
  ELSE [s EXCEPT !.pc = "ccrrt", !.entry_cancelled = s.cancelled]

\* Lines 126-128: the dimension check solve() starts with.
SolveEnter(s) ==
  IF NRows # NCols
  THEN [s EXCEPT !.pc = "done", !.result = ErrMsg(MsgNotSquare),
                 !.entry_cancelled = s.cancelled]
  ELSE [s EXCEPT !.pc = "ccrrt", !.entry_cancelled = s.cancelled]

\* Lines 129-131: column reduction, then the pass counter i = 0.
SolveCcrrt(s) ==
  [CcrrtDense(s) EXCEPT !.i = 0, !.pc = "arr", !.phases = @ \cup {"ccrrt"}]

\* Mutant of ArrGuard: the bound of two passes is dropped.
ArrGuardUnbounded(s) == VLen(s.free_rows) # 0

\* The condition of the loop of line 132.
ArrGuard(s) == VLen(s.free_rows) # 0 /\ s.i < ARR_PASSES

\* Mutant of SolveArrPass: the pass starts without check_cancelled().
SolveArrPassNoPoll(s) ==
  [CarrBegin(s) EXCEPT !.pc = "carr", !.phases = @ \cup {"carr"}]

\* Lines 133-134: check_cancelled()?, then carr_dense starts.
SolveArrPass(s) ==
  IF s.cancelled
  THEN [s EXCEPT !.pc = "done", !.result = ErrCancelled, !.polls = @ + 1]
  ELSE [CarrBegin(s) EXCEPT !.pc = "carr", !.polls = @ + 1,
                            !.phases = @ \cup {"carr"}]

\* Mutant of SolveAfterArr: the augmentation is skipped.
SolveAfterArrNoAugment(s) ==
  [s EXCEPT !.pc = "done", !.result = OkResult(s)]

\* Lines 138-142: augmentation when rows are left free, else Ok.
SolveAfterArr(s) ==
  IF VLen(s.free_rows) # 0
  THEN [CaBegin(s) EXCEPT !.phases = @ \cup {"ca"}]
  ELSE [s EXCEPT !.pc = "done", !.result = OkResult(s)]

\* Mutant of CaNext: a cancellation is reported as a message error.
CaNextCancelAsMsg(s) ==
  IF VLen(s.queue) = 0
  THEN [s EXCEPT !.pc = "done", !.result = OkResult(s)]
  ELSE IF s.cancelled
  THEN [s EXCEPT !.pc = "done", !.result = ErrMsg("cancelled"), !.polls = @ + 1]
  ELSE [FindPathInit(s, s.queue[0]) EXCEPT !.queue = Tail0(s.queue),
                                          !.polls = @ + 1, !.pc = "path"]

\* Lines 261-268: the next free row of ca_dense: check_cancelled()?, then
\* find_path_dense starts.  With no row left ca_dense returns Ok(()) and
\* solve returns the assignment (lines 280, 142).
CaNext(s) ==
  IF VLen(s.queue) = 0
  THEN [s EXCEPT !.pc = "done", !.result = OkResult(s)]
  ELSE IF s.cancelled
  THEN [s EXCEPT !.pc = "done", !.result = ErrCancelled, !.polls = @ + 1]
  ELSE [FindPathInit(s, s.queue[0]) EXCEPT !.queue = Tail0(s.queue),
                                          !.polls = @ + 1, !.pc = "path"]

\* ------------------------------------------------------------ actions

Instances == DOMAIN solver

Set(p, new) == solver' = [solver EXCEPT ![p] = new] /\ UNCHANGED costs

\* A step of the thread running solve() of instance p.
Step(p, new) == Set(p, [new EXCEPT !.steps = solver[p].steps + 1])

\* Cancellation::cancel, from any thread at any time.
Cancel(p) == Set(p, [solver[p] EXCEPT !.cancelled = TRUE])

Enter(p) == solver[p].pc = "new" /\ Step(p, SolveEnter(solver[p]))

\* Mutant of ColumnReduction: the columns claim their rows in ascending
\* or in descending order, whichever the run happens to take.
RECURSIVE CcrrtClaimAscending(_, _)
CcrrtClaimAscending(a, j) ==
  IF j >= a.s.dim THEN a
  ELSE LET i == a.s.in_col[j] IN
       IF a.not_set[i]
       THEN CcrrtClaimAscending(
              [a EXCEPT !.s.in_row[i] = j, !.not_set[i] = FALSE], j + 1)
       ELSE CcrrtClaimAscending(
              [a EXCEPT !.unique[i] = FALSE, !.s.in_col[j] = USIZE_MAX], j + 1)

SolveCcrrtAscending(s) ==
  LET a0 == [s |-> CcrrtInit(s),
             unique |-> Filled(s.dim, TRUE), not_set |-> Filled(s.dim, TRUE)]
  IN [CcrrtTransfer(CcrrtClaimAscending(a0, 0), 0).s
        EXCEPT !.i = 0, !.pc = "arr", !.phases = @ \cup {"ccrrt"}]

ColumnReductionAnyOrder(p) ==
  /\ solver[p].pc = "ccrrt"
  /\ \/ Step(p, SolveCcrrt(solver[p]))
     \/ Step(p, SolveCcrrtAscending(solver[p]))

ColumnReduction(p) == solver[p].pc = "ccrrt" /\ Step(p, SolveCcrrt(solver[p]))

ArrPass(p) ==
  /\ solver[p].pc = "arr" /\ ArrGuard(solver[p])
  /\ Step(p, SolveArrPass(solver[p]))

ArrExit(p) ==
  /\ solver[p].pc = "arr" /\ ~ArrGuard(solver[p])
  /\ Step(p, SolveAfterArr(solver[p]))

CarrIter(p) ==
  /\ solver[p].pc = "carr" /\ solver[p].current < solver[p].num_free_rows
  /\ Step(p, CarrBody(solver[p]))

CarrDone(p) ==
  /\ solver[p].pc = "carr" /\ ~(solver[p].current < solver[p].num_free_rows)
  /\ Step(p, CarrEnd(solver[p]))

AugNext(p) == solver[p].pc = "ca" /\ Step(p, CaNext(solver[p]))

Find(p) ==
  /\ solver[p].pc = "path" /\ solver[p].final_j = {}
  /\ Step(p, FindStep(solver[p]))

Scan(p) == solver[p].pc = "scan" /\ Step(p, ScanDense(solver[p]))

Found(p) ==
  /\ solver[p].pc = "path" /\ solver[p].final_j # {}
  /\ Step(p, PathFinish(solver[p]))

Walk(p) ==
  /\ solver[p].pc = "walk" /\ solver[p].wi # solver[p].freerow
  /\ Step(p, WalkBody(solver[p]))

WalkEnd(p) ==
  /\ solver[p].pc = "walk" /\ solver[p].wi = solver[p].freerow
  /\ Step(p, [solver[p] EXCEPT !.pc = "ca"])

\* One step of the thread running solve() of instance p.
SolveStep(p) ==
  \/ Enter(p) \/ ColumnReduction(p) \/ ArrPass(p) \/ ArrExit(p)
  \/ CarrIter(p) \/ CarrDone(p) \/ AugNext(p) \/ Find(p) \/ Scan(p)
  \/ Found(p) \/ Walk(p) \/ WalkEnd(p)

\* ----------------------------------------------------- specifications

\* The matrices of Init: every square matrix up to MaxN with costs in
\* 0..CostTop, and every non-square shape up to MaxN with costs in 0..1.
Inputs ==
  UNION {Matrices(n, n, CostTop(n)) : n \in 1..MaxN}
  \cup UNION {Matrices(r, c, 1) : <<r, c>> \in {rc \in (1..MaxN) \X (1..MaxN) : rc[1] # rc[2]}}

\* One solver, built by LapJV::new over a matrix of Inputs.
Init ==
  /\ costs \in Inputs
  /\ solver = [p \in {1} |-> NewSolver(NRows)]

Next ==
  \/ \E p \in Instances : Enter(p)
  \/ \E p \in Instances : ColumnReduction(p)
  \/ \E p \in Instances : ArrPass(p)
  \/ \E p \in Instances : CarrIter(p)
  \/ \E p \in Instances : CarrDone(p)
  \/ \E p \in Instances : ArrExit(p)
  \/ \E p \in Instances : AugNext(p)
  \/ \E p \in Instances : Find(p)
  \/ \E p \in Instances : Scan(p)
  \/ \E p \in Instances : Found(p)
  \/ \E p \in Instances : Walk(p)
  \/ \E p \in Instances : WalkEnd(p)
  \/ \E p \in Instances : Cancel(p)

Spec == Init /\ [][Next]_vars

\* The matrices of InitTwo: the square matrices of Inputs, above
\* dimension 3 the symmetric ones only, which keeps the interleavings of
\* two solvers enumerable.
InputsTwo ==
  UNION {{m \in Matrices(n, n, CostTop(n)) :
            n > 3 => \A a, b \in 0..(n - 1) : m[a][b] = m[b][a]} : n \in 1..MaxN}

\* Two solvers built over the same square matrix, each by its own
\* LapJV::new, their steps interleaved in any order; no thread cancels.
InitTwo ==
  /\ costs \in InputsTwo
  /\ solver = [p \in {1, 2} |-> NewSolver(NRows)]

NextTwo ==
  \/ \E p \in Instances : Enter(p)
  \/ \E p \in Instances : ColumnReduction(p)
  \/ \E p \in Instances : ArrPass(p)
  \/ \E p \in Instances : CarrIter(p)
  \/ \E p \in Instances : CarrDone(p)
  \/ \E p \in Instances : ArrExit(p)
  \/ \E p \in Instances : AugNext(p)
  \/ \E p \in Instances : Find(p)
  \/ \E p \in Instances : Scan(p)
  \/ \E p \in Instances : Found(p)
  \/ \E p \in Instances : Walk(p)
  \/ \E p \in Instances : WalkEnd(p)

SpecTwo == InitTwo /\ [][NextTwo]_vars

\* One solver over costs that make the arithmetic of T round: next to
\* the small costs, the first value of T above 2^MantBits, where the
\* neighbouring values of T are 2 apart.
BigCost == 2 ^ MantBits + 2

\* The costs drawn for a dim x dim matrix: fewer small ones as the
\* dimension grows, which keeps the set of inputs enumerable.
CostsRounded(dim) ==
  (0..(IF dim <= 2 THEN 2 ELSE IF dim = 3 THEN 1 ELSE 0)) \cup {BigCost}

InputsRounded ==
  UNION {[0..(n - 1) -> [0..(n - 1) -> CostsRounded(n)]] : n \in 1..MaxN}

InitRounded ==
  /\ costs \in InputsRounded
  /\ solver = [p \in {1} |-> NewSolver(NRows)]

SpecRounded == InitRounded /\ [][Next]_vars

\* ------------------------------------------------------------ claims

Square == NRows = NCols

Indices == 0..(NRows - 1)

\* The permutations of the row indices, as row -> column maps.
Permutations0 ==
  {f \in [Indices -> Indices] : \A a, b \in Indices : f[a] = f[b] => a = b}

\* cost (lines 65-71): the sum of the entries a row -> column map selects.
RECURSIVE CostFold(_, _, _)
CostFold(row, i, acc) ==
  IF i >= VLen(row) THEN acc
  ELSE CostFold(row, i + 1, Add(acc, costs[i][row[i]]))

AssignmentCost(row) == CostFold(row, 0, 0)

\* The row-wise greedy assignment: each row in turn takes its cheapest
\* column among those still free, the lowest index on ties.
RECURSIVE GreedyFold(_, _)
GreedyFold(i, row) ==
  IF i >= NRows THEN row
  ELSE LET used == {row[k] : k \in 0..(i - 1)}
           open == (0..(NCols - 1)) \ used
           best == CHOOSE j \in open :
                     \A j2 \in open : costs[i][j] < costs[i][j2]
                                      \/ (costs[i][j] = costs[i][j2] /\ j <= j2)
       IN GreedyFold(i + 1, [row EXCEPT ![i] = best])

Greedy == GreedyFold(0, Filled(NRows, 0))

\* C1: whenever solve() returns Ok on a square N x N matrix, row_to_col
\* and col_to_row have length N, hold only indices of 0..N-1 (no
\* sentinel), are permutations of 0..N-1 and are inverse to each other.
C1_MutualInversePermutations ==
  \A p \in Instances :
    LET r == solver[p].result IN
    r.status = "Ok" =>
      /\ Square /\ NRows >= 1
      /\ DOMAIN r.row_to_col = Indices /\ DOMAIN r.col_to_row = Indices
      /\ \A i \in Indices : r.row_to_col[i] \in Indices /\ r.col_to_row[i] \in Indices
      /\ {r.row_to_col[i] : i \in Indices} = Indices
      /\ {r.col_to_row[j] : j \in Indices} = Indices
      /\ \A i \in Indices : r.col_to_row[r.row_to_col[i]] = i
      /\ \A j \in Indices : r.row_to_col[r.col_to_row[j]] = j

\* A solve that went through augmentation and returned Ok on a 3 x 3 or
\* larger matrix.
C1_Witness ==
  \E p \in Instances :
    /\ solver[p].result.status = "Ok" /\ NRows >= 3
    /\ solver[p].augs >= 1

C3_DimensionMismatch ==
  \A p \in Instances :
    LET s == solver[p] IN
    ~Square =>
      /\ s.pc \in {"new", "done"}
      /\ s.phases = {} /\ s.polls = 0
      /\ s.v = EmptyVec /\ s.in_col = EmptyVec /\ s.free_rows = EmptyVec
      /\ s.in_row = Filled(NRows, 0)
      /\ s.pc = "new" => s.result = NoResult
      /\ s.pc = "done" => s.result = ErrMsg(MsgNotSquare)
      /\ s.result.row_to_col = EmptyVec /\ s.result.col_to_row = EmptyVec

\* solve() has returned on a non-square matrix.
C3_Witness ==
  \E p \in Instances : ~Square /\ solver[p].pc = "done"

\* C4 as stated: with the flag set before solve() is invoked on a square
\* matrix, solve() returns Cancelled and no phase runs.
C4_Original ==
  \A p \in Instances :
    LET s == solver[p] IN
    (Square /\ s.entry_cancelled) =>
      /\ s.phases = {}
      /\ s.pc = "done" => s.result = ErrCancelled

\* C4 amended: with the flag set before solve() is invoked on a square
\* matrix, column reduction still runs (nothing polls the flag before
\* it), but no pass of augmenting row reduction and no augmentation
\* does: solve() returns Cancelled at the first poll when column
\* reduction left a free row, and Ok when it left none.
C4_CancelledBeforeSolve ==
  \A p \in Instances :
    LET s == solver[p] IN
    (Square /\ s.entry_cancelled) =>
      /\ s.phases \subseteq {"ccrrt"}
      /\ s.pc \in {"ccrrt", "arr", "done"}
      /\ s.polls <= 1
      /\ s.pc = "done" =>
           /\ s.phases = {"ccrrt"}
           /\ s.i = 0
           /\ VLen(s.free_rows) # 0 => s.result = ErrCancelled /\ s.polls = 1
           /\ VLen(s.free_rows) = 0 => s.result.status = "Ok" /\ s.polls = 0

\* solve() entered with the flag set has returned Cancelled.
C4_Witness ==
  \E p \in Instances :
    /\ Square /\ solver[p].entry_cancelled
    /\ solver[p].pc = "done" /\ solver[p].result = ErrCancelled

\* The calls of check_cancelled so far: one per pass of augmenting row
\* reduction begun, one per search begun, one more when the last call
\* found the flag set.
PollsExpected(s) ==
  s.i + (IF s.pc = "carr" THEN 1 ELSE 0) + s.augs
  + (IF s.result = ErrCancelled THEN 1 ELSE 0)

\* The solver is at the top of a pass of augmenting row reduction, or at
\* the top of an iteration of the loop of ca_dense over the free rows.
AtPollPoint(s) ==
  \/ s.pc = "arr" /\ ArrGuard(s)
  \/ s.pc = "ca" /\ VLen(s.queue) # 0

\* What a step from s to t of one solver does with the flag.
PollStep(s, t) ==
  \* the flag is polled at the two loop tops only, once per iteration
  /\ t.polls # s.polls => t.polls = s.polls + 1 /\ AtPollPoint(s)
  /\ (AtPollPoint(s) /\ t.pc # s.pc) => t.polls = s.polls + 1
  \* a poll that sees the flag returns Cancelled with nothing else changed
  /\ (t.polls # s.polls /\ s.cancelled) =>
       /\ t.pc = "done" /\ t.result = ErrCancelled
       /\ t.v = s.v /\ t.in_row = s.in_row /\ t.in_col = s.in_col
       /\ t.free_rows = s.free_rows /\ t.queue = s.queue
  \* a poll that does not see it lets the iteration start
  /\ (t.polls # s.polls /\ ~s.cancelled) =>
       t.result = NoResult /\ t.pc \in {"carr", "path"}
  \* Cancelled comes from a poll and from nothing else
  /\ (t.result = ErrCancelled /\ s.result # ErrCancelled) =>
       t.polls = s.polls + 1 /\ s.cancelled
  \* after solve() has returned nothing changes any more
  /\ s.pc = "done" =>
       /\ t.pc = "done" /\ t.result = s.result
       /\ t.v = s.v /\ t.in_row = s.in_row /\ t.in_col = s.in_col

\* C5: the flag, which another thread may set at any time, is polled
\* once at the top of each pass of augmenting row reduction and once at
\* the top of each per-free-row iteration of augmentation, and nowhere
\* in the inner loops; a poll that sees the flag set makes solve()
\* return Cancelled at once, with no further change of the duals or the
\* assignment and no assignment returned.
C5_PollsAtLoopTops ==
  /\ [](\A p \in Instances : solver[p].polls = PollsExpected(solver[p]))
  /\ [](\A p \in Instances :
          solver[p].result = ErrCancelled =>
            solver[p].cancelled /\ solver[p].result.row_to_col = EmptyVec)
  /\ [][\A p \in Instances : PollStep(solver[p], solver'[p])]_vars

\* The flag was set while solve() ran, an inner loop went on with the
\* flag set, and the poll at the top of the loop of ca_dense returned
\* Cancelled.
C5_Witness ==
  \E p \in Instances :
    /\ solver[p].result = ErrCancelled /\ ~solver[p].entry_cancelled
    /\ "ca" \in solver[p].phases

\* The three values ErrorKind takes in a failure.
ErrorKinds ==
  {<<"Msg", MsgNotSquare>>, <<"Cancelled", "">>, <<"Msg", MsgNotFinish>>}

C7_NoNonConvergence ==
  \A p \in Instances :
    LET s == solver[p] IN
    /\ s.result # ErrMsg(MsgNotFinish)
    /\ s.pc = "walk" =>
         /\ s.wk <= s.dim
         /\ s.wk = s.dim => s.wi = s.freerow

\* A walk that reached its free row after two steps or more.
C7_Witness ==
  \E p \in Instances :
    /\ solver[p].pc = "walk" /\ solver[p].wi = solver[p].freerow
    /\ solver[p].wk >= 2 /\ ~solver[p].cancelled

\* C9, the state part: solve() runs at most two passes of augmenting row
\* reduction, fewer only when no row is left free; within a pass the
\* loop over the free rows has run at most num_free_rows * dim times.
CarrBounded(s) ==
  /\ s.i <= ARR_PASSES
  /\ s.pc = "carr" =>
       /\ s.i < ARR_PASSES
       /\ s.current <= s.num_free_rows
       /\ s.new_free_rows <= s.current
       /\ s.rr_cnt <= s.num_free_rows * s.dim
       /\ s.current < s.num_free_rows => s.rr_cnt < (s.current + 1) * s.dim
  /\ "ca" \in s.phases => s.i = ARR_PASSES
  /\ (s.result.status = "Ok" /\ s.i < ARR_PASSES) => "ca" \notin s.phases

\* C9, the step part: every iteration counts in rr_cnt, and once rr_cnt
\* has reached current * dim the iteration does not put a displaced row
\* back at the current position: the loop moves on to the next row.
CarrProgress(s, t) ==
  (s.pc = "carr" /\ t.pc = "carr" /\ t.rr_cnt # s.rr_cnt) =>
    /\ t.rr_cnt = s.rr_cnt + 1
    /\ t.current \in {s.current, s.current + 1}
    /\ s.rr_cnt + 1 >= (s.current + 1) * s.dim => t.current = s.current + 1
    /\ t.current = s.current => t.free_rows[t.current] # s.free_rows[s.current]

\* C9: augmenting row reduction always terminates: at most two passes,
\* each of finitely many iterations even when displaced rows are put
\* back at the current position, because of the cap rr_cnt < current * dim.
C9_RowReductionTerminates ==
  /\ [](\A p \in Instances : CarrBounded(solver[p]))
  /\ [][\A p \in Instances : CarrProgress(solver[p], solver'[p])]_vars

\* A pass in which displaced rows were put back until the cap stopped it:
\* the last iteration ran with rr_cnt >= current * dim.
C9_Witness ==
  \E p \in Instances :
    /\ solver[p].pc = "carr" /\ solver[p].current >= 1
    /\ solver[p].rr_cnt >= solver[p].current * solver[p].dim
    /\ solver[p].rr_cnt > solver[p].current

\* The states of the search of find_path_dense.
InSearch(s) == s.pc \in {"path", "scan"}

\* C10, the state part: no index leaves the column list, the frontier
\* indices stay ordered, the loop of the search has run at most dim
\* times, the columns handed to scan_dense are all assigned, and the
\* column found is unassigned.
SearchBounded(s) ==
  /\ s.result # Panicked
  /\ InSearch(s) =>
       /\ s.n_ready <= s.lo /\ s.lo <= s.hi /\ s.hi <= s.dim
       /\ s.rounds <= s.dim
       /\ DOMAIN s.collist = 0..(s.dim - 1)
       /\ {s.collist[k] : k \in 0..(s.dim - 1)} = 0..(s.dim - 1)
       /\ VLen(s.in_col) = s.dim
       /\ \E j \in 0..(s.dim - 1) : s.in_col[j] = USIZE_MAX
  /\ (s.pc = "path" /\ s.final_j = {}) => s.lo = s.hi /\ s.lo < s.dim
  /\ s.pc = "scan" =>
       /\ s.lo < s.hi
       /\ \A k \in s.lo..(s.hi - 1) : s.in_col[s.collist[k]] # USIZE_MAX
  /\ (s.pc = "path" /\ s.final_j # {}) =>
       \E j \in 0..(s.dim - 1) : s.final_j = {j} /\ s.in_col[j] = USIZE_MAX

\* C10, the step part: the search is left towards the walk only, with
\* the column found, and each pass of its loop settles a new column.
SearchProgress(s, t) ==
  /\ (InSearch(s) /\ ~InSearch(t)) =>
       /\ t.pc = "walk" /\ s.final_j # {} /\ t.wj = Unwrap(s.final_j)
       /\ t.wj < s.dim /\ s.in_col[t.wj] = USIZE_MAX
  /\ (s.pc = "scan" /\ t.pc = "path" /\ t.final_j = {}) => t.lo > s.lo
  /\ (InSearch(s) /\ InSearch(t)) => t.rounds \in {s.rounds, s.rounds + 1}

\* C10: for every row free when augmentation starts, the shortest-path
\* search terminates, never indexes past the column list and ends in
\* Found, with a column j < N that is unassigned at that moment.
C10_SearchEndsInFound ==
  /\ [](\A p \in Instances : SearchBounded(solver[p]))
  /\ [][\A p \in Instances : SearchProgress(solver[p], solver'[p])]_vars

\* A search that went through frontier expansion and relaxation has
\* returned its column to ca_dense.
C10_Witness ==
  \E p \in Instances :
    /\ solver[p].pc = "walk" /\ solver[p].wk = 0
    /\ solver[p].rounds >= 1 /\ solver[p].hi > solver[p].lo
    /\ solver[p].final_j = {solver[p].wj}
    /\ solver[p].in_col[solver[p].wj] = USIZE_MAX

AtBoundary(s) == s.pc \in {"arr", "ca"}

\* The rows still to be processed as free at a boundary: self.free_rows,
\* or in ca_dense what is left of the list the for loop iterates.
FreeList(s) == IF s.pc = "ca" THEN s.queue ELSE s.free_rows

\* The columns holding the unassigned sentinel in col_to_row.
FreeCols(s) == {j \in DOMAIN s.in_col : s.in_col[j] = USIZE_MAX}

\* The rows some column holds in col_to_row.
HeldRows(s) == {s.in_col[j] : j \in DOMAIN s.in_col} \ {USIZE_MAX}

\* The number of rows still to be processed as free, between boundaries
\* too: in a pass of carr_dense the rows not yet scanned and the rows
\* stored for the next phase, in an augmentation the row being augmented
\* and the rows left in the list.
Pending(s) ==
  CASE s.pc \in {"arr", "ca"} -> VLen(FreeList(s))
    [] s.pc = "carr" -> (s.num_free_rows - s.current) + s.new_free_rows
    [] s.pc \in {"path", "scan", "walk"} -> VLen(s.queue) + 1
    [] OTHER -> 0

\* C11, the state part: at a boundary the free rows are exactly the rows
\* no column holds, each listed once, as many as the columns holding the
\* sentinel; a successful solve() ends with no free row.
FreeRowsExact(s) ==
  /\ AtBoundary(s) =>
       LET f == FreeList(s) IN
       /\ {f[k] : k \in DOMAIN f} = (0..(s.dim - 1)) \ HeldRows(s)
       /\ \A a, b \in DOMAIN f : f[a] = f[b] => a = b
       /\ VLen(f) = Cardinality(FreeCols(s))
  /\ s.result.status = "Ok" =>
       /\ VLen(s.free_rows) = 0 /\ VLen(s.queue) = 0
       /\ FreeCols(s) = {} /\ HeldRows(s) = 0..(s.dim - 1)

\* C11, the step part: past column reduction the number of free rows
\* never grows, and it drops by exactly one over an augmentation: the
\* start of the search keeps it, the end of the walk lowers it by one.
FreeRowsShrink(s, t) ==
  /\ (s.pc \in {"arr", "carr", "ca", "path", "scan", "walk"}
       /\ t.pc \in {"arr", "carr", "ca", "path", "scan", "walk"}) =>
        Pending(t) <= Pending(s)
  /\ (s.pc = "ca" /\ t.pc = "path") => Pending(t) = Pending(s)
  /\ (s.pc \in {"path", "scan", "walk"} /\ t.pc \in {"path", "scan", "walk"}) =>
        Pending(t) = Pending(s)
  /\ (s.pc = "walk" /\ t.pc = "ca") =>
        /\ Pending(t) = Pending(s) - 1
        /\ Cardinality(FreeCols(t)) = VLen(t.queue)

\* C11: at every phase boundary of solve() the rows still to be processed
\* as free are exactly the rows no column holds in col_to_row, each
\* listed once; their number equals the number of columns holding the
\* sentinel, never grows, drops by one per augmentation and is zero when
\* solve() succeeds.
C11_FreeRowsAreUnassignedRows ==
  /\ [](\A p \in Instances : FreeRowsExact(solver[p]))
  /\ [][\A p \in Instances : FreeRowsShrink(solver[p], solver'[p])]_vars

\* The boundary after a completed augmentation that followed two passes
\* of augmenting row reduction.
C11_Witness ==
  \E p \in Instances :
    /\ solver[p].pc = "ca" /\ solver[p].augs >= 1
    /\ solver[p].i = ARR_PASSES /\ solver[p].wi = solver[p].freerow


\* Row i sits on a column of minimum reduced cost of its row.
MinReduced(s, i, j) ==
  \A k \in 0..(s.dim - 1) : ReducedCost(s.v, i, j) <= ReducedCost(s.v, i, k)

\* C12, the state part: at a boundary every row held by a column has its
\* minimum reduced cost there, and at Ok every row has it on the column
\* row_to_col gives it.
DualCertificate(s) ==
  /\ AtBoundary(s) =>
       \A j \in DOMAIN s.in_col :
         s.in_col[j] # USIZE_MAX => MinReduced(s, s.in_col[j], j)
  /\ s.result.status = "Ok" =>
       \A i \in 0..(s.dim - 1) : MinReduced(s, i, s.result.row_to_col[i])

\* Every cost is one of the small integers of Inputs: the sums and
\* differences solve() forms of them are exact in T.
SmallCosts ==
  \A i \in 0..(NRows - 1), j \in 0..(NCols - 1) : costs[i][j] <= CostTop(NRows)

\* C12 as stated, for every finite-cost matrix: when solve() succeeds
\* the final duals v satisfy
\* cost[i][row_to_col[i]] - v[row_to_col[i]] <= cost[i][k] - v[k] for
\* every row i and column k, and the same holds at every phase boundary
\* for every row a column holds.
C12_Original == \A p \in Instances : DualCertificate(solver[p])

\* C12, amended: the certificate holds on the matrices whose costs are
\* integers small enough for the arithmetic of T to be exact on them;
\* there the duals stay exact integers too.
C12_DualCertificateExact ==
  SmallCosts =>
    \A p \in Instances :
      /\ DualCertificate(solver[p])
      /\ NRows >= 2 =>
           \A j \in DOMAIN solver[p].v : Abs(solver[p].v[j]) <= 2 ^ MantBits

\* A successful solve() of a small-cost matrix that went through row
\* reduction and an augmentation.
C12_Witness ==
  /\ SmallCosts
  /\ \E p \in Instances :
       /\ solver[p].result.status = "Ok" /\ solver[p].augs >= 1
       /\ solver[p].i = ARR_PASSES

====
